---- MODULE Spec2Model ----
(***************************************************************************)
(* Model of the Surge-Geosite-Enhance build scripts:                       *)
(*   scripts/sync-r2.mjs           manifest-based incremental publisher    *)
(*   scripts/build-srs.mjs         geosite SRS build (sequential)          *)
(*   geoip SRS build               (second half of src/scripts/sync-r2.mjs)*)
(*   scripts/build-geosite-json    rule normalisation and sort             *)
(*   geoip JSON build              (src/unnamed/part_000) toIPv6String     *)
(* Each script is its own state machine over its own variables; the        *)
(* variables of the other scripts stay at their idle values.               *)
(***************************************************************************)
EXTENDS Integers, Sequences, FiniteSets, TLC

VARIABLES
  \* ---- publisher (sync-r2.mjs) ----
  localPlan,      \* buildLocalPlan() result after plan.sort: seq of items
  DRY_RUN,        \* env DRY_RUN
  CONCURRENCY,    \* env R2_CONCURRENCY, at least 1
  r2Manifest,     \* the object stored under the manifest key in the bucket
  r2Manifest0,    \* history: the manifest object when the run began
  r2Objects,      \* bucket contents per artifact key (sha256 of what is stored)
  pc,             \* position of main()
  remoteEntries,  \* uploadPlan: remoteManifest?.entries || {}
  changed,        \* uploadPlan: the changed list
  idx,            \* uploadPlan: shared index counter (0-based, as in the code)
  wstate,         \* per worker: "idle" | "put" | "done" | "failed"
  witem,          \* per worker: 1-based position in changed of the item in flight
  merged,         \* uploadPlan: the merged entries about to be written
  puts,           \* history: every PUT started, in order
  okPuts,         \* history: positions in changed whose PUT resolved
  gets,           \* history: the outcome of every GET of the manifest, in order
  exitCode,       \* -1 while running, else the process exit status
  \* ---- toHeadlessRule of build-srs.mjs applied to one rule list ----
  fRules,         \* the rules argument
  fFilter,        \* the filter argument (Null for null)
  fOut,           \* the returned headless object
  fDone,          \* whether the function has returned
  \* ---- build-srs.mjs main (geosite SRS build) ----
  sCats,          \* the categories read from dist/geosite-json, sorted by name
  sPos,           \* 1-based position of the loops in names x filters
  sPc,            \* "loop" | "compile" | "done"
  sTotal,         \* total
  sAttempted,     \* history: positions whose compileSRS was started
  sCompiled,      \* history: positions whose compileSRS resolved (.srs written)
  sFailed,        \* history: positions whose compileSRS rejected
  sReported,      \* the count of the final log line, -1 when not logged
  sExit,          \* -1 while running, else the process exit status
  \* ---- geoip SRS build main and runPool ----
  gGroups,        \* the groups read from dist/geoip-json, sorted by name
  gConc,          \* concurrency (env SRS_CONCURRENCY, at least 1)
  gTasks,         \* tasks: the name, filter and rule.ip_cidr of each
  gI,             \* runPool: i
  gWst,           \* per worker: "idle" | "run" | "done"
  gWidx,          \* per worker: idx (0-based, as in the code)
  gResults,       \* runPool: results, "unset" | "ok" | "err" per task
  gStarted,       \* history: the idx of every task started, in order
  gPc,            \* "main" | "pool" | "done"
  gReported,      \* the count of the final log line, -1 when not logged
  gExit,          \* -1 while running, else the process exit status
  \* ---- toIPv6String of the geoip JSON build applied to one address ----
  ipBytes,        \* u8: the sixteen address bytes
  ipBest,         \* <<bestStart, bestLen>> after line 92
  ipOut,          \* the returned string
  ipDone,         \* whether the function has returned
  \* ---- build-geosite-json.mjs main applied to one decoded entry ----
  nSite,          \* the decoded entry: [country_code, domain]
  nSite2,         \* the same entry with its domain records in another order
  nOut,           \* categories after the loop over <<nSite>>
  nOut2,          \* categories after the loop over <<nSite2>>
  nDone           \* whether the loop has run

pubVars == <<localPlan, DRY_RUN, CONCURRENCY, r2Manifest, r2Manifest0, r2Objects,
             pc, remoteEntries, changed, idx, wstate, witem, merged, puts, okPuts, gets, exitCode>>

filterVars == <<fRules, fFilter, fOut, fDone>>

srsVars == <<sCats, sPos, sPc, sTotal, sAttempted, sCompiled, sFailed, sReported, sExit>>

geoVars == <<gGroups, gConc, gTasks, gI, gWst, gWidx, gResults, gStarted, gPc,
             gReported, gExit>>

ipVars == <<ipBytes, ipBest, ipOut, ipDone>>

normVars == <<nSite, nSite2, nOut, nOut2, nDone>>

vars == <<pubVars, filterVars, srsVars, geoVars, ipVars, normVars>>

(***************************************************************************)
(* Bounds                                                                  *)
(***************************************************************************)
MaxWorkers == 2
MaxRules == 2
MaxCats == 2
MaxGroups == 2
MaxSrsWorkers == 2
MaxDomains == 2

(***************************************************************************)
(* Publisher: files, keys, manifest entries                                *)
(***************************************************************************)
\* Output directories scanned by buildLocalPlan and the bucket prefix of each.
SRC_JSON_DIR == "dist/geosite-json"
SRS_DIR == "dist/srs"
ROOT_INDEX_JSON == [dir |-> "", sub |-> "", base |-> "index.json"]
DEFAULT_MANIFEST_KEY == <<"manifests", "geosite.json">>

\* A path is [dir, sub, base]: sub is "" for a file directly in dir and the
\* name of the sub-directory for a file walk() found by recursion.
JsonPaths == { [dir |-> SRC_JSON_DIR, sub |-> "", base |-> "a.json"],
               [dir |-> SRC_JSON_DIR, sub |-> "sub", base |-> "a.json"] }
SrsPaths == { [dir |-> SRS_DIR, sub |-> "", base |-> "a.srs"] }

\* path.basename(f)
basename(p) == p.base

\* File contents the build can have produced: content -> <<sha256, size>>.
Contents == {"c1", "c2"}
sha256File(c) == IF c = "c1" THEN "h1" ELSE "h2"
statSize(c) == IF c = "c1" THEN 1 ELSE 2

\* Artifact keys: <<prefix, basename>> stands for `${prefix}/${basename}`.
K_JSON == <<"geosite-json", "a.json">>
K_SRS == <<"geosite", "a.srs">>
K_INDEX == <<"geosite", "index.json">>
K_OLD == <<"geosite", "old.srs">>
Keys == {K_JSON, K_SRS, K_INDEX, K_OLD}

\* a.key.localeCompare(b.key): "-" collates before "/" and "a" before "i".
KeyRank(k) ==
  CASE k = K_JSON -> 1
    [] k = K_SRS -> 2
    [] k = K_INDEX -> 3
    [] OTHER -> 4

NoEntry == [sha256 |-> "none", size |-> 0]
EmptyEntries == [k \in Keys |-> NoEntry]

\* walk(dir, filterFn): the files below dir in readdir order, sub-directories
\* included; `order` is the order readdir happened to give.
walk(fs, paths, order) ==
  SelectSeq(order, LAMBDA p : p \in paths /\ fs[p] # "absent")

Item(fs, p, key) ==
  [file |-> p, key |-> key, size |-> statSize(fs[p]), sha256 |-> sha256File(fs[p])]

RECURSIVE MapItems(_, _, _)
MapItems(fs, files, prefix) ==
  IF files = <<>> THEN <<>>
  ELSE <<Item(fs, Head(files), <<prefix, basename(Head(files))>>)>>
       \o MapItems(fs, Tail(files), prefix)

\* plan.sort((a, b) => a.key.localeCompare(b.key)): Array.prototype.sort is
\* stable, so items with equal keys keep their relative order.
RECURSIVE InsertByKey(_, _)
InsertByKey(sorted, it) ==
  IF sorted = <<>> THEN <<it>>
  ELSE IF KeyRank(Head(sorted).key) <= KeyRank(it.key)
       THEN <<Head(sorted)>> \o InsertByKey(Tail(sorted), it)
       ELSE <<it>> \o sorted

RECURSIVE SortPlan(_)
SortPlan(plan) ==
  IF plan = <<>> THEN <<>>
  ELSE InsertByKey(SortPlan(SubSeq(plan, 1, Len(plan) - 1)), plan[Len(plan)])

buildLocalPlan(fs, order) ==
  LET jsonFiles == walk(fs, JsonPaths, order)
      srsFiles == walk(fs, SrsPaths, order)
      root == IF fs[ROOT_INDEX_JSON] # "absent"
              THEN <<Item(fs, ROOT_INDEX_JSON, K_INDEX)>> ELSE <<>>
  IN MapItems(fs, jsonFiles, "geosite-json") \o MapItems(fs, srsFiles, "geosite") \o root

AllPaths == JsonPaths \cup SrsPaths \cup {ROOT_INDEX_JSON}

\* What each path can hold when the publisher starts.
FileChoices(p) ==
  IF p = ROOT_INDEX_JSON THEN {"absent", "c1"} ELSE {"absent"} \cup Contents

\* The orders in which readdir can list the scanned files.
ReaddirOrders ==
  LET top == [dir |-> SRC_JSON_DIR, sub |-> "", base |-> "a.json"]
      nested == [dir |-> SRC_JSON_DIR, sub |-> "sub", base |-> "a.json"]
      srs == [dir |-> SRS_DIR, sub |-> "", base |-> "a.srs"]
  IN { <<top, nested, srs>>, <<nested, top, srs>> }

LocalPlans ==
  { SortPlan(buildLocalPlan(fs, order)) :
      fs \in { f \in [AllPaths -> Contents \cup {"absent"}] :
                 \A p \in AllPaths : f[p] \in FileChoices(p) },
      order \in ReaddirOrders }

\* Entries a manifest left in the bucket can hold for a key.
EntryChoices(k) ==
  CASE k = K_JSON -> { NoEntry, [sha256 |-> "h1", size |-> 1],
                       [sha256 |-> "h2", size |-> 2], [sha256 |-> "h1", size |-> 2] }
    [] k = K_SRS -> { NoEntry, [sha256 |-> "h1", size |-> 1], [sha256 |-> "h2", size |-> 1] }
    [] k = K_INDEX -> { NoEntry, [sha256 |-> "h1", size |-> 1] }
    [] OTHER -> { NoEntry, [sha256 |-> "h2", size |-> 2] }

EntryValues == UNION { EntryChoices(k) : k \in Keys }

\* The object under the manifest key: absent, a body that is not JSON, or a
\* manifest with entries.
NoManifest == [present |-> FALSE, json |-> FALSE, entries |-> EmptyEntries]
RemoteManifests ==
  { NoManifest, [present |-> TRUE, json |-> FALSE, entries |-> EmptyEntries] } \cup
  { [present |-> TRUE, json |-> TRUE, entries |-> e] :
      e \in { f \in [Keys -> EntryValues] : \A k \in Keys : f[k] \in EntryChoices(k) } }

Workers == 1 .. CONCURRENCY

(***************************************************************************)
(* Publisher: uploadPlan                                                   *)
(***************************************************************************)
\* Mutant of IsChanged: the size comparison is left out.
IsChanged_NoSize(item, entries) ==
  LET remote == entries[item.key]
  IN remote = NoEntry \/ remote.sha256 # item.sha256

\* uploadPlan lines 161-167: the test that puts an item in `changed`.
IsChanged(item, entries) ==
  LET remote == entries[item.key]
  IN remote = NoEntry \/ remote.sha256 # item.sha256 \/ remote.size # item.size

ChangedOf(plan, entries) == SelectSeq(plan, LAMBDA item : IsChanged(item, entries))

\* uploadPlan lines 195-199: { ...remoteEntries } then every local item
\* written over it in plan order.
RECURSIVE MergeEntries(_, _)
MergeEntries(entries, plan) ==
  IF plan = <<>> THEN entries
  ELSE MergeEntries([entries EXCEPT ![Head(plan).key] =
                       [sha256 |-> Head(plan).sha256, size |-> Head(plan).size]],
                    Tail(plan))

\* Mutant of Min: a worker per item, whatever the configured count.
Min_Second(a, b) == b

Min(a, b) == IF a < b THEN a ELSE b

PutOf(n, key) == [n |-> n, key |-> key]

\* Mutant of FirstPuts: the index is read but not advanced, so every worker
\* starts with the first item.
FirstPuts_SameItem(list, n) == [w \in 1 .. n |-> PutOf(1, list[1].key)]

\* The PUTs started by the first n workers, each having taken i = idx++
\* (lines 176-185).
RECURSIVE FirstPuts(_, _)
FirstPuts(list, n) ==
  IF n = 0 THEN <<>> ELSE FirstPuts(list, n - 1) \o <<PutOf(n, list[n].key)>>

\* Mutant of WorkerPuts: the dry-run test of the worker loop is left out.
WorkerPuts_Always(dry) == TRUE

\* Whether a worker issues the PUT of the item it took (lines 180-185).
WorkerPuts(dry) == ~dry

\* Whether line 207 issues the PUT of the manifest.
ManifestPuts(dry) == ~dry

\* Mutant of ReturnsEarly: uploadPlan never returns before the merge.
ReturnsEarly_Never(ch) == FALSE

\* uploadPlan line 168: changed.length === 0
ReturnsEarly(ch) == Len(ch) = 0

PubInit ==
  /\ localPlan \in LocalPlans
  /\ DRY_RUN \in BOOLEAN
  /\ CONCURRENCY \in 1 .. MaxWorkers
  /\ r2Manifest \in RemoteManifests
  /\ r2Manifest0 = r2Manifest
  /\ r2Objects = [k \in Keys |-> "old"]
  /\ pc = "main"
  /\ remoteEntries = EmptyEntries
  /\ changed = <<>>
  /\ idx = 0
  /\ wstate = [w \in 1 .. CONCURRENCY |-> "idle"]
  /\ witem = [w \in 1 .. CONCURRENCY |-> 0]
  /\ merged = EmptyEntries
  /\ puts = <<>>
  /\ okPuts = {}
  /\ gets = <<>>
  /\ exitCode = -1

\* Mutant of MainStart: the test for an empty plan is left out.
MainStart_NoEmptyCheck ==
  /\ pc = "main"
  /\ pc' = "fetch"
  /\ UNCHANGED <<localPlan, DRY_RUN, CONCURRENCY, r2Manifest, r2Manifest0, r2Objects,
                 remoteEntries, changed, idx, wstate, witem, merged, puts, okPuts, gets,
                 exitCode>>

\* main lines 222-226: nothing to sync ends the run before any remote call.
MainStart ==
  /\ pc = "main"
  /\ IF Len(localPlan) = 0
     THEN pc' = "done" /\ exitCode' = 0
     ELSE pc' = "fetch" /\ UNCHANGED exitCode
  /\ UNCHANGED <<localPlan, DRY_RUN, CONCURRENCY, r2Manifest, r2Manifest0, r2Objects,
                 remoteEntries, changed, idx, wstate, witem, merged, puts, okPuts, gets>>

\* How the try block of fetchRemoteManifest ends (lines 131-137): wrangler
\* fails (`ok` false, or the object is not there), JSON.parse throws, or the
\* parsed manifest is returned.
GetOutcome(ok, obj) ==
  IF ~obj.present THEN (IF ok THEN "notfound" ELSE "error")
  ELSE IF ~ok THEN "error"
  ELSE IF ~obj.json THEN "unparseable"
  ELSE "ok"

\* Mutant of fetchRemoteManifest: the catch block is left out of account and
\* the stored entries are returned whatever the outcome.
fetchRemoteManifest_NoCatch(outcome, obj) == obj.entries

\* fetchRemoteManifest lines 129-142 followed by line 160: the entries
\* uploadPlan works with; the catch block returns { entries: {} }.
fetchRemoteManifest(outcome, obj) ==
  IF outcome = "ok" THEN obj.entries ELSE EmptyEntries

\* fetchRemoteManifest: the GET; a failed GET or an unparseable body gives
\* the empty manifest.
FetchRemoteManifest ==
  /\ pc = "fetch"
  /\ \E ok \in BOOLEAN :
       /\ remoteEntries' = fetchRemoteManifest(GetOutcome(ok, r2Manifest), r2Manifest)
       /\ gets' = Append(gets, GetOutcome(ok, r2Manifest))
  /\ pc' = "uploadPlan"
  /\ UNCHANGED <<localPlan, DRY_RUN, CONCURRENCY, r2Manifest, r2Manifest0, r2Objects,
                 changed, idx, wstate, witem, merged, puts, okPuts, exitCode>>

\* uploadPlan lines 160-193 up to the first suspension: the diff, the early
\* return, and Array.from starting every worker, each running to its first
\* await. In dry-run no worker awaits: the first takes every item.
UploadPlanStart ==
  /\ pc = "uploadPlan"
  /\ LET ch == ChangedOf(localPlan, remoteEntries)
         n == Len(ch)
         k == Min(CONCURRENCY, n)
     IN /\ changed' = ch
        /\ IF ReturnsEarly(ch)
           THEN /\ pc' = "done" /\ exitCode' = 0
                /\ UNCHANGED <<idx, wstate, witem, puts>>
           ELSE IF WorkerPuts(DRY_RUN) /\ n > 0
           THEN /\ idx' = k
                /\ wstate' = [w \in Workers |-> IF w <= k THEN "put" ELSE "done"]
                /\ witem' = [w \in Workers |-> IF w <= k THEN w ELSE 0]
                /\ puts' = puts \o FirstPuts(ch, k)
                /\ pc' = "workers"
                /\ UNCHANGED exitCode
           ELSE /\ idx' = n
                /\ wstate' = [w \in Workers |-> "done"]
                /\ pc' = "merge"
                /\ UNCHANGED <<witem, puts, exitCode>>
  /\ UNCHANGED <<localPlan, DRY_RUN, CONCURRENCY, r2Manifest, r2Manifest0, r2Objects,
                 remoteEntries, merged, okPuts, gets>>

\* Mutant of AllWorkersDone: the pool settles with the first worker to leave.
AllWorkersDone_Any(ws, w) == TRUE

\* await Promise.all(workers), line 193: whether the pool has settled once
\* worker w leaves its loop.
AllWorkersDone(ws, w) == \A v \in DOMAIN ws \ {w} : ws[v] = "done"

\* A worker's putObject resolves (lines 185-186), and the worker loops: it
\* takes the next index and starts that PUT, or leaves the loop. When the
\* last worker leaves, Promise.all resolves.
PutOk(w) ==
  /\ pc = "workers"
  /\ wstate[w] = "put"
  /\ r2Objects' = [r2Objects EXCEPT ![changed[witem[w]].key] = changed[witem[w]].sha256]
  /\ IF idx < Len(changed)
     THEN /\ idx' = idx + 1
          /\ witem' = [witem EXCEPT ![w] = idx + 1]
          /\ puts' = puts \o <<PutOf(idx + 1, changed[idx + 1].key)>>
          /\ UNCHANGED <<wstate, pc>>
     ELSE /\ wstate' = [wstate EXCEPT ![w] = "done"]
          /\ pc' = IF AllWorkersDone(wstate, w) THEN "merge" ELSE "workers"
          /\ UNCHANGED <<idx, witem, puts>>
  /\ okPuts' = okPuts \cup {witem[w]}
  /\ UNCHANGED <<localPlan, DRY_RUN, CONCURRENCY, r2Manifest, r2Manifest0,
                 remoteEntries, changed, merged, gets, exitCode>>

\* Mutant of PutFail: the rejection is logged and not rethrown, so the pool
\* and the run go on.
PutFail_Swallowed(w) ==
  /\ pc = "workers"
  /\ wstate[w] = "put"
  /\ wstate' = [wstate EXCEPT ![w] = "failed"]
  /\ UNCHANGED <<localPlan, DRY_RUN, CONCURRENCY, r2Manifest, r2Manifest0, r2Objects, pc,
                 remoteEntries, changed, idx, witem, merged, puts, okPuts, gets, exitCode>>

\* A worker's putObject rejects (lines 187-190): the worker rethrows,
\* Promise.all rejects, uploadPlan and main reject, and main().catch calls
\* process.exit(1); all of it before any other callback runs.
PutFail(w) ==
  /\ pc = "workers"
  /\ wstate[w] = "put"
  /\ wstate' = [wstate EXCEPT ![w] = "failed"]
  /\ pc' = "done"
  /\ exitCode' = 1
  /\ UNCHANGED <<localPlan, DRY_RUN, CONCURRENCY, r2Manifest, r2Manifest0, r2Objects,
                 remoteEntries, changed, idx, witem, merged, puts, okPuts, gets>>

\* A wrangler child process that was still running when the process exited
\* finishes its PUT on its own.
OrphanPut(w) ==
  /\ pc = "done"
  /\ exitCode = 1
  /\ wstate[w] = "put"
  /\ r2Objects' = [r2Objects EXCEPT ![changed[witem[w]].key] = changed[witem[w]].sha256]
  /\ wstate' = [wstate EXCEPT ![w] = "orphan"]
  /\ UNCHANGED <<localPlan, DRY_RUN, CONCURRENCY, r2Manifest, r2Manifest0,
                 pc, remoteEntries, changed, idx, witem, merged, puts, okPuts, gets, exitCode>>

\* uploadPlan lines 195-209: merge, then the PUT of the manifest unless
\* dry-run.
WriteManifest ==
  /\ pc = "merge"
  /\ merged' = MergeEntries(remoteEntries, localPlan)
  /\ IF ManifestPuts(DRY_RUN)
     THEN /\ puts' = puts \o <<PutOf(0, DEFAULT_MANIFEST_KEY)>>
          /\ pc' = "manifestPut"
          /\ UNCHANGED exitCode
     ELSE /\ pc' = "done"
          /\ exitCode' = 0
          /\ UNCHANGED puts
  /\ UNCHANGED <<localPlan, DRY_RUN, CONCURRENCY, r2Manifest, r2Manifest0, r2Objects,
                 remoteEntries, changed, idx, wstate, witem, okPuts, gets>>

\* The PUT of the manifest resolves: uploadPlan returns and main ends.
ManifestPutOk ==
  /\ pc = "manifestPut"
  /\ r2Manifest' = [present |-> TRUE, json |-> TRUE, entries |-> merged]
  /\ pc' = "done"
  /\ exitCode' = 0
  /\ UNCHANGED <<localPlan, DRY_RUN, CONCURRENCY, r2Manifest0, r2Objects,
                 remoteEntries, changed, idx, wstate, witem, merged, puts, okPuts, gets>>

\* The PUT of the manifest rejects: main().catch, process.exit(1).
ManifestPutFail ==
  /\ pc = "manifestPut"
  /\ pc' = "done"
  /\ exitCode' = 1
  /\ UNCHANGED <<localPlan, DRY_RUN, CONCURRENCY, r2Manifest, r2Manifest0, r2Objects,
                 remoteEntries, changed, idx, wstate, witem, merged, puts, okPuts, gets>>

\* The publisher is started again after a run that ended with status 0 and
\* was not a dry run: main (lines 214-232) anew, over the same files and the
\* bucket as the first run left it. The histories start over, except that
\* gets keeps the first run's GET.
RunAgain ==
  /\ pc = "done"
  /\ exitCode = 0
  /\ ~DRY_RUN
  /\ Len(gets) = 1
  /\ pc' = "main"
  /\ exitCode' = -1
  /\ r2Manifest0' = r2Manifest
  /\ remoteEntries' = EmptyEntries
  /\ changed' = <<>>
  /\ idx' = 0
  /\ wstate' = [w \in Workers |-> "idle"]
  /\ witem' = [w \in Workers |-> 0]
  /\ merged' = EmptyEntries
  /\ puts' = <<>>
  /\ okPuts' = {}
  /\ UNCHANGED <<localPlan, DRY_RUN, CONCURRENCY, r2Manifest, r2Objects, gets>>

(***************************************************************************)
(* Strings are sequences of one-character strings, so that toLowerCase,    *)
(* startsWith, slice, trim and join are computed as the code computes them.*)
(***************************************************************************)
Null == <<>>

toLowerChar(c) ==
  CASE c = "C" -> "c"
    [] c = "N" -> "n"
    [] c = "A" -> "a"
    [] c = "B" -> "b"
    [] c = "V" -> "v"
    [] OTHER -> c

toLowerCase(str) == [i \in 1 .. Len(str) |-> toLowerChar(str[i])]

\* Array.prototype.includes on an array of strings
includes(arr, x) == \E i \in 1 .. Len(arr) : arr[i] = x

(***************************************************************************)
(* build-srs.mjs: toHeadlessRule (domain side)                             *)
(***************************************************************************)
Buckets == {"domain", "domain_suffix", "domain_keyword", "domain_regex"}

\* Mutant of BucketOf: the case "keyword" is missing from the switch.
BucketOf_NoKeyword(type) ==
  CASE type = "full" -> "domain"
    [] type = "domain" -> "domain_suffix"
    [] type = "regexp" -> "domain_regex"
    [] OTHER -> ""

\* the switch on r.type, lines 56-69; "" when no case matches
BucketOf(type) ==
  CASE type = "full" -> "domain"
    [] type = "domain" -> "domain_suffix"
    [] type = "keyword" -> "domain_keyword"
    [] type = "regexp" -> "domain_regex"
    [] OTHER -> ""

\* Mutant of SkipsRule: the negation flag is ignored.
SkipsRule_NoNeg(neg, has) == ~has

\* line 54: (!neg && !has) || (neg && has)
SkipsRule(neg, has) == (~neg /\ ~has) \/ (neg /\ has)

\* lines 39-41: target, neg, key. A null filter and an empty target are both
\* falsy, and so is an empty key.
FilterTarget(filter) == toLowerCase(filter)
FilterNeg(filter) == FilterTarget(filter) # <<>> /\ Head(FilterTarget(filter)) = "!"
FilterKey(filter) ==
  IF FilterNeg(filter) THEN Tail(FilterTarget(filter)) ELSE FilterTarget(filter)

\* lines 51-55: whether rule r gets past the filter
RuleKept(r, filter) ==
  LET attrs == [i \in 1 .. Len(r.attrs) |-> toLowerCase(r.attrs[i])]
      key == FilterKey(filter)
  IN IF key # <<>>
     THEN ~SkipsRule(FilterNeg(filter), includes(attrs, key))
     ELSE TRUE

\* lines 43-70: agg after the loop over rules
RECURSIVE Aggregate(_, _)
Aggregate(rules, filter) ==
  IF rules = <<>> THEN [b \in Buckets |-> <<>>]
  ELSE LET agg == Aggregate(SubSeq(rules, 1, Len(rules) - 1), filter)
           r == rules[Len(rules)]
       IN IF RuleKept(r, filter) /\ BucketOf(r.type) \in Buckets
          THEN [agg EXCEPT ![BucketOf(r.type)] = Append(@, r.value)]
          ELSE agg

\* lines 72-77: the empty arrays are dropped
toHeadlessRule(rules, filter) ==
  LET agg == Aggregate(rules, filter)
  IN [b \in {k \in Buckets : Len(agg[k]) > 0} |-> agg[b]]

\* Inputs: rules as build-geosite-json writes them.
RuleTypes == {"full", "domain", "keyword", "regexp"}
RuleValues == {"a.com", "b.com"}
AttrLists == { <<>>, << <<"c", "n">> >>, << <<"C", "N">> >>,
               << <<"a", "d", "s">>, <<"c", "n">> >> }
RuleUniverse == [type : RuleTypes, value : RuleValues, attrs : AttrLists]
Filters == { Null, <<"c", "n">>, <<"!", "c", "n">>, <<"C", "N">>, <<"!", "C", "n">>,
             <<"!">>, <<"a", "d", "s">> }

SeqsUpTo(S, n) == UNION { [1 .. k -> S] : k \in 0 .. n }

FilterIdle ==
  /\ fRules = <<>>
  /\ fFilter = Null
  /\ fOut = [b \in {} |-> <<>>]
  /\ fDone = FALSE

FilterInit ==
  /\ fRules \in SeqsUpTo(RuleUniverse, MaxRules)
  /\ fFilter \in Filters
  /\ fOut = [b \in {} |-> <<>>]
  /\ fDone = FALSE

CallToHeadlessRule ==
  /\ ~fDone
  /\ fOut' = toHeadlessRule(fRules, fFilter)
  /\ fDone' = TRUE
  /\ UNCHANGED <<fRules, fFilter>>

(***************************************************************************)
(* build-srs.mjs: main (categories x filters, one compile at a time)       *)
(***************************************************************************)
\* line 92-93: [null, ...("cn,!cn".split(","))]
SrsFilters == << Null, <<"c", "n">>, <<"!", "c", "n">> >>

\* names after the sort of line 90 (file names of one directory are distinct)
NameOrder == <<"apple", "bing", "cisco", "dell">>

RECURSIVE SortedNames(_, _)
SortedNames(present, n) ==
  IF n = 0 THEN <<>>
  ELSE SortedNames(present, n - 1) \o (IF n \in present THEN <<NameOrder[n]>> ELSE <<>>)

\* data.rules of a category file
CategoryRules ==
  LET cn == [type |-> "domain", value |-> "a.com", attrs |-> << <<"c", "n">> >>]
      plain == [type |-> "full", value |-> "b.com", attrs |-> <<>>]
  IN { <<>>, <<cn>>, <<plain>>, <<cn, plain>> }

CategoryLists ==
  UNION { { [i \in 1 .. Len(SortedNames(present, MaxCats)) |->
               [name |-> SortedNames(present, MaxCats)[i], rules |-> rs[i]]] :
            rs \in [1 .. Cardinality(present) -> CategoryRules] } :
          present \in SUBSET (1 .. MaxCats) }

NFilters == Len(SrsFilters)
SrsPositions == 1 .. (Len(sCats) * NFilters)
SrsCat(p) == sCats[((p - 1) \div NFilters) + 1]
SrsFilter(p) == SrsFilters[((p - 1) % NFilters) + 1]
\* line 99: toHeadlessRule(data.rules || [], filter)
SrsRule(p) == toHeadlessRule(SrsCat(p).rules, SrsFilter(p))
\* Mutant of SrsSkipped: the test for an empty rule is left out.
SrsSkipped_Never(p) == FALSE

\* line 100: Object.keys(rule).length === 0
SrsSkipped(p) == DOMAIN SrsRule(p) = {}

SrsIdle ==
  /\ sCats = <<>>
  /\ sPos = 1
  /\ sPc = "idle"
  /\ sTotal = 0
  /\ sAttempted = {}
  /\ sCompiled = {}
  /\ sFailed = {}
  /\ sReported = -1
  /\ sExit = -1

SrsInit ==
  /\ sCats \in CategoryLists
  /\ sPos = 1
  /\ sPc = "loop"
  /\ sTotal = 0
  /\ sAttempted = {}
  /\ sCompiled = {}
  /\ sFailed = {}
  /\ sReported = -1
  /\ sExit = -1

\* lines 96-108 for one name and filter: skip an empty rule, else write the
\* source and start the compiler; after the last one, line 112 and the end
\* of main.
SrsLoop ==
  /\ sPc = "loop"
  /\ IF sPos \notin SrsPositions
     THEN /\ sPc' = "done"
          /\ sReported' = sTotal
          /\ sExit' = 0
          /\ UNCHANGED <<sPos, sAttempted>>
     ELSE IF SrsSkipped(sPos)
     THEN /\ sPos' = sPos + 1
          /\ UNCHANGED <<sPc, sReported, sExit, sAttempted>>
     ELSE /\ sPc' = "compile"
          /\ sAttempted' = sAttempted \cup {sPos}
          /\ UNCHANGED <<sPos, sReported, sExit>>
  /\ UNCHANGED <<sCats, sTotal, sCompiled, sFailed>>

\* compileSRS resolved: line 109, then the next filter or name
SrsCompileOk ==
  /\ sPc = "compile"
  /\ sCompiled' = sCompiled \cup {sPos}
  /\ sTotal' = sTotal + 1
  /\ sPos' = sPos + 1
  /\ sPc' = "loop"
  /\ UNCHANGED <<sCats, sAttempted, sFailed, sReported, sExit>>

\* compileSRS rejected: nothing catches it in main, so main() rejects and
\* lines 115-118 exit with status 1.
SrsCompileFail ==
  /\ sPc = "compile"
  /\ sFailed' = sFailed \cup {sPos}
  /\ sPc' = "done"
  /\ sExit' = 1
  /\ UNCHANGED <<sCats, sPos, sTotal, sAttempted, sCompiled, sReported>>

(***************************************************************************)
(* geoip SRS build (sync-r2.mjs lines 239-354): toHeadlessRule, runPool,   *)
(* main                                                                    *)
(***************************************************************************)
\* line 327
GeoFilters == << Null, <<"v", "4">>, <<"v", "6">> >>

\* lines 280-281
wantV4(filter) ==
  filter = Null \/ toLowerCase(filter) = <<"v", "4">>
    \/ toLowerCase(filter) = <<"i", "p", "v", "4">>
wantV6(filter) ==
  filter = Null \/ toLowerCase(filter) = <<"v", "6">>
    \/ toLowerCase(filter) = <<"i", "p", "v", "6">>

\* lines 279-291: the ip_cidr list; the function returns null when it is
\* empty.
geoIpCidr(data, filter) ==
  (IF wantV4(filter) THEN data.cidr4 ELSE <<>>) \o
  (IF wantV6(filter) THEN data.cidr6 ELSE <<>>)
geoRuleIsNull(data, filter) == Len(geoIpCidr(data, filter)) = 0

\* the contents of a group file
GroupData ==
  { [cidr4 |-> <<>>, cidr6 |-> <<>>],
    [cidr4 |-> <<"1.0.0.0/8">>, cidr6 |-> <<>>],
    [cidr4 |-> <<>>, cidr6 |-> <<"2001::/16">>],
    [cidr4 |-> <<"2.0.0.0/8", "1.0.0.0/8">>, cidr6 |-> <<"2001::/16">>] }

GroupLists ==
  UNION { { [i \in 1 .. Len(SortedNames(present, MaxGroups)) |->
               [name |-> SortedNames(present, MaxGroups)[i], data |-> ds[i]]] :
            ds \in [1 .. Cardinality(present) -> GroupData] } :
          present \in SUBSET (1 .. MaxGroups) }

\* lines 331-344: the tasks pushed, in order
RECURSIVE GeoTasksOf(_, _)
GeoTasksOf(groups, p) ==
  IF p = 0 THEN <<>>
  ELSE LET g == groups[((p - 1) \div Len(GeoFilters)) + 1]
           f == GeoFilters[((p - 1) % Len(GeoFilters)) + 1]
       IN GeoTasksOf(groups, p - 1) \o
          (IF geoRuleIsNull(g.data, f) THEN <<>>
           ELSE << [name |-> g.name, filter |-> f, ip_cidr |-> geoIpCidr(g.data, f)] >>)

GeoWorkers == 1 .. gConc

GeoIdle ==
  /\ gGroups = <<>>
  /\ gConc = 1
  /\ gTasks = <<>>
  /\ gI = 0
  /\ gWst = <<"idle">>
  /\ gWidx = <<0>>
  /\ gResults = <<>>
  /\ gStarted = <<>>
  /\ gPc = "idle"
  /\ gReported = -1
  /\ gExit = -1

GeoInit ==
  /\ gGroups \in GroupLists
  /\ gConc \in 1 .. MaxSrsWorkers
  /\ gTasks = <<>>
  /\ gI = 0
  /\ gWst = [w \in 1 .. gConc |-> "idle"]
  /\ gWidx = [w \in 1 .. gConc |-> 0]
  /\ gResults = <<>>
  /\ gStarted = <<>>
  /\ gPc = "main"
  /\ gReported = -1
  /\ gExit = -1

\* lines 347-349: runPool's results are not looked at; main returns.
PoolExitCode(results) == 0

\* line 348: the count logged as generated
PoolReported(tasks, results) == Len(tasks)

RECURSIVE StartedBy(_, _)
StartedBy(k, n) ==
  IF k = 0 THEN <<>> ELSE StartedBy(k - 1, n) \o (IF k - 1 < n THEN <<k - 1>> ELSE <<>>)

\* main lines 317-347 up to the first suspension inside runPool: no names
\* ends the run; else the tasks are built and Array.from starts every worker,
\* each taking idx = i++ and either starting that task or leaving.
GeoMainStart ==
  /\ gPc = "main"
  /\ IF Len(gGroups) = 0
     THEN /\ gPc' = "done"
          /\ gExit' = 0
          /\ UNCHANGED <<gTasks, gI, gWst, gWidx, gResults, gStarted, gReported>>
     ELSE LET tasks == GeoTasksOf(gGroups, Len(gGroups) * Len(GeoFilters))
              n == Len(tasks)
          IN /\ gTasks' = tasks
             /\ gI' = gConc
             /\ gWst' = [w \in GeoWorkers |-> IF w - 1 < n THEN "run" ELSE "done"]
             /\ gWidx' = [w \in GeoWorkers |-> w - 1]
             /\ gResults' = [k \in 1 .. n |-> "unset"]
             /\ gStarted' = StartedBy(gConc, n)
             /\ IF n = 0
                THEN /\ gPc' = "done"
                     /\ gReported' = PoolReported(tasks, <<>>)
                     /\ gExit' = PoolExitCode(<<>>)
                ELSE /\ gPc' = "pool"
                     /\ UNCHANGED <<gReported, gExit>>
  /\ UNCHANGED <<gGroups, gConc>>

\* Mutant of GeoTaskSettled: the result is stored at the shared counter,
\* results[i - 1], not at the worker's own idx.
GeoTaskSettled_SharedIndex(w, outcome) ==
  /\ gPc = "pool"
  /\ gWst[w] = "run"
  /\ gResults' = [k \in 1 .. Len(gResults) |-> IF k = gI THEN outcome ELSE gResults[k]]
  /\ gI' = gI + 1
  /\ gWidx' = [gWidx EXCEPT ![w] = gI]
  /\ IF gI < Len(gTasks)
     THEN /\ gStarted' = Append(gStarted, gI)
          /\ UNCHANGED <<gWst, gPc, gReported, gExit>>
     ELSE /\ gWst' = [gWst EXCEPT ![w] = "done"]
          /\ UNCHANGED gStarted
          /\ IF \A v \in GeoWorkers \ {w} : gWst[v] = "done"
             THEN /\ gPc' = "done"
                  /\ gReported' = PoolReported(gTasks, gResults')
                  /\ gExit' = PoolExitCode(gResults')
             ELSE UNCHANGED <<gPc, gReported, gExit>>
  /\ UNCHANGED <<gGroups, gConc, gTasks>>

\* A worker's task settled (lines 305-310) with outcome "ok" or "err": the
\* result is stored at idx and the worker loops, taking idx = i++; when the
\* last worker leaves, Promise.all resolves and main logs and returns.
GeoTaskSettled(w, outcome) ==
  /\ gPc = "pool"
  /\ gWst[w] = "run"
  /\ gResults' = [gResults EXCEPT ![gWidx[w] + 1] = outcome]
  /\ gI' = gI + 1
  /\ gWidx' = [gWidx EXCEPT ![w] = gI]
  /\ IF gI < Len(gTasks)
     THEN /\ gStarted' = Append(gStarted, gI)
          /\ UNCHANGED <<gWst, gPc, gReported, gExit>>
     ELSE /\ gWst' = [gWst EXCEPT ![w] = "done"]
          /\ UNCHANGED gStarted
          /\ IF \A v \in GeoWorkers \ {w} : gWst[v] = "done"
             THEN /\ gPc' = "done"
                  /\ gReported' = PoolReported(gTasks, gResults')
                  /\ gExit' = PoolExitCode(gResults')
             ELSE UNCHANGED <<gPc, gReported, gExit>>
  /\ UNCHANGED <<gGroups, gConc, gTasks>>

GeoTaskOk(w) == GeoTaskSettled(w, "ok")
GeoTaskFail(w) == GeoTaskSettled(w, "err")

(***************************************************************************)
(* geoip JSON build (src/unnamed/part_000): toIPv6String                   *)
(***************************************************************************)
NWords == 8
MinCompressRun == 2

HexDigit(n) ==
  CASE n = 0 -> "0" [] n = 1 -> "1" [] n = 2 -> "2" [] n = 3 -> "3"
    [] n = 4 -> "4" [] n = 5 -> "5" [] n = 6 -> "6" [] n = 7 -> "7"
    [] n = 8 -> "8" [] n = 9 -> "9" [] n = 10 -> "a" [] n = 11 -> "b"
    [] n = 12 -> "c" [] n = 13 -> "d" [] n = 14 -> "e" [] OTHER -> "f"

\* Number.prototype.toString(16)
RECURSIVE toString16(_)
toString16(n) ==
  IF n < 16 THEN <<HexDigit(n)>> ELSE toString16(n \div 16) \o <<HexDigit(n % 16)>>

\* lines 64-67: words[k] = (u8[2k] << 8) | u8[2k + 1], here 1-based
wordsOf(u8) == [k \in 1 .. NWords |-> u8[2 * k - 1] * 256 + u8[2 * k]]

\* Mutant of RunBeats: a later run of the same length replaces the best one.
RunBeats_OrEqual(curLen, bestLen) == curLen >= bestLen

\* lines 78 and 86: curLen > bestLen
RunBeats(curLen, bestLen) == curLen > bestLen

\* lines 69-85: the scan, state after the iterations i = 0 .. n-1
RECURSIVE ScanRuns(_, _)
ScanRuns(words, n) ==
  IF n = 0 THEN [bestStart |-> -1, bestLen |-> 0, curStart |-> -1, curLen |-> 0]
  ELSE LET st == ScanRuns(words, n - 1)
           i == n - 1
       IN IF words[i + 1] = 0
          THEN [st EXCEPT !.curStart = IF st.curStart = -1 THEN i ELSE st.curStart,
                          !.curLen = st.curLen + 1]
          ELSE IF RunBeats(st.curLen, st.bestLen)
               THEN [bestStart |-> st.curStart, bestLen |-> st.curLen,
                     curStart |-> -1, curLen |-> 0]
               ELSE [st EXCEPT !.curStart = -1, !.curLen = 0]

\* lines 69-92: <<bestStart, bestLen>> used by the printing loop
BestRun(words) ==
  LET st == ScanRuns(words, NWords)
      bs == IF RunBeats(st.curLen, st.bestLen) THEN st.curStart ELSE st.bestStart
      bl == IF RunBeats(st.curLen, st.bestLen) THEN st.curLen ELSE st.bestLen
  IN IF bl < MinCompressRun THEN <<-1, bl>> ELSE <<bs, bl>>

\* lines 93-104: parts, from index i on
RECURSIVE PartsFrom(_, _, _)
PartsFrom(words, best, i) ==
  IF i >= NWords THEN <<>>
  ELSE IF i = best[1]
       THEN <<"">> \o (IF i + best[2] >= NWords THEN <<"">> ELSE <<>>)
            \o PartsFrom(words, best, i + best[2])
       ELSE <<toString16(words[i + 1])>> \o PartsFrom(words, best, i + 1)

\* a part as characters ("" is the empty string)
PartChars(part) == IF part = "" THEN <<>> ELSE part

\* Array.prototype.join(":")
RECURSIVE joinColon(_)
joinColon(parts) ==
  IF parts = <<>> THEN <<>>
  ELSE IF Len(parts) = 1 THEN PartChars(parts[1])
  ELSE joinColon(SubSeq(parts, 1, Len(parts) - 1)) \o <<":">> \o PartChars(parts[Len(parts)])

\* .replace(/^:/, "::")
replaceLeadingColon(str) ==
  IF str # <<>> /\ Head(str) = ":" THEN <<":", ":">> \o Tail(str) ELSE str

\* .replace(/:$/, "::")
replaceTrailingColon(str) ==
  IF str # <<>> /\ str[Len(str)] = ":"
  THEN SubSeq(str, 1, Len(str) - 1) \o <<":", ":">> ELSE str

\* line 105
toIPv6String(u8) ==
  LET words == wordsOf(u8)
  IN replaceTrailingColon(replaceLeadingColon(joinColon(PartsFrom(words, BestRun(words), 0))))

\* Inputs: every address whose words are 0, 1 or abcd, and the address with
\* the words 1, 0, 2, 3, 4, 5, 6, 7.
WordBytes == { <<0, 0>>, <<0, 1>>, <<171, 205>> }
BytesOfWords(ws) == [k \in 1 .. 2 * NWords |-> ws[(k + 1) \div 2][2 - (k % 2)]]
SampleAddress == <<0, 1, 0, 0, 0, 2, 0, 3, 0, 4, 0, 5, 0, 6, 0, 7>>
AddressInputs == { BytesOfWords(ws) : ws \in [1 .. NWords -> WordBytes] } \cup {SampleAddress}

IpIdle ==
  /\ ipBytes = <<>>
  /\ ipBest = <<-1, 0>>
  /\ ipOut = <<>>
  /\ ipDone = FALSE

IpInit ==
  /\ ipBytes \in AddressInputs
  /\ ipBest = <<-1, 0>>
  /\ ipOut = <<>>
  /\ ipDone = FALSE

CallToIPv6String ==
  /\ ~ipDone
  /\ Len(ipBytes) = 16
  /\ ipBest' = BestRun(wordsOf(ipBytes))
  /\ ipOut' = toIPv6String(ipBytes)
  /\ ipDone' = TRUE
  /\ UNCHANGED ipBytes

(***************************************************************************)
(* build-geosite-json.mjs: domainTypeToRuleType, extractAttrs, the map and *)
(* sort of main                                                            *)
(***************************************************************************)
\* Mutant of domainTypeToRuleType: the case "Plain" is missing, so Plain
\* falls to the default.
domainTypeToRuleType_NoPlain(type) ==
  CASE type = "Domain" -> "domain"
    [] type = "Full" -> "full"
    [] type = "Regex" -> "regexp"
    [] OTHER -> "domain"

\* lines 72-86
domainTypeToRuleType(type) ==
  CASE type = "Domain" -> "domain"
    [] type = "Full" -> "full"
    [] type = "Plain" -> "keyword"
    [] type = "Regex" -> "regexp"
    [] OTHER -> "domain"

\* Primary collation weight of a character for locale "en": white space,
\* then punctuation, then symbols, then digits, then letters; with
\* sensitivity "base" upper and lower case weigh the same.
CharRank(c) ==
  LET l == toLowerChar(c)
  IN CASE l = " " -> 1 [] l = "!" -> 2 [] l = "." -> 3 [] l = "=" -> 4
       [] l = "1" -> 11 [] l = "a" -> 20 [] l = "b" -> 21 [] l = "c" -> 22
       [] l = "d" -> 23 [] l = "n" -> 33 [] l = "s" -> 38 [] OTHER -> 50

\* a.localeCompare(b, "en", { sensitivity: "base" }): -1, 0 or 1
RECURSIVE localeCompareBase(_, _)
localeCompareBase(a, b) ==
  IF a = <<>> /\ b = <<>> THEN 0
  ELSE IF a = <<>> THEN -1
  ELSE IF b = <<>> THEN 1
  ELSE IF CharRank(Head(a)) < CharRank(Head(b)) THEN -1
  ELSE IF CharRank(Head(a)) > CharRank(Head(b)) THEN 1
  ELSE localeCompareBase(Tail(a), Tail(b))

\* String.prototype.trim
RECURSIVE trimStart(_)
trimStart(str) ==
  IF str # <<>> /\ Head(str) = " " THEN trimStart(Tail(str)) ELSE str
RECURSIVE trimEnd(_)
trimEnd(str) ==
  IF str # <<>> /\ str[Len(str)] = " " THEN trimEnd(SubSeq(str, 1, Len(str) - 1)) ELSE str
trim(str) == trimEnd(trimStart(str))

\* lines 88-103. An attribute is [hasKey, key, kind, bool_value, int_value]
\* with kind "bool" or "int" for the oneof member that is set, else "none".
RECURSIVE extractAttrs(_)
extractAttrs(attrList) ==
  IF attrList = <<>> THEN <<>>
  ELSE LET a == Head(attrList)
           rest == extractAttrs(Tail(attrList))
       IN IF ~a.hasKey THEN rest
          ELSE IF a.kind = "bool" THEN (IF a.bool_value THEN <<a.key>> ELSE <<>>) \o rest
          ELSE IF a.kind = "int" THEN <<a.key \o <<"=">> \o a.int_value>> \o rest
          ELSE <<a.key>> \o rest

\* Array.prototype.sort is stable: an element goes after every element that
\* does not compare greater than it.
RECURSIVE InsertAttr(_, _)
InsertAttr(sorted, x) ==
  IF sorted = <<>> THEN <<x>>
  ELSE IF localeCompareBase(Head(sorted), x) <= 0
       THEN <<Head(sorted)>> \o InsertAttr(Tail(sorted), x)
       ELSE <<x>> \o sorted

\* line 141: .sort((a, b) => a.localeCompare(b, "en", { sensitivity: "base" }))
RECURSIVE sortAttrs(_)
sortAttrs(attrs) ==
  IF attrs = <<>> THEN <<>>
  ELSE InsertAttr(sortAttrs(SubSeq(attrs, 1, Len(attrs) - 1)), attrs[Len(attrs)])

\* a.type.localeCompare(b.type, ...) on the four rule types
TypeRank(type) ==
  CASE type = "domain" -> 1
    [] type = "full" -> 2
    [] type = "keyword" -> 3
    [] OTHER -> 4

\* lines 144-147: the comparator of the rules sort
compareRules(a, b) ==
  IF a.type = b.type THEN localeCompareBase(a.value, b.value)
  ELSE IF TypeRank(a.type) < TypeRank(b.type) THEN -1 ELSE 1

\* Mutant of InsertRule: a rule equal to one already placed is dropped.
RECURSIVE InsertRule_Dedup(_, _)
InsertRule_Dedup(sorted, x) ==
  IF sorted = <<>> THEN <<x>>
  ELSE IF Head(sorted) = x THEN sorted
  ELSE IF compareRules(Head(sorted), x) <= 0
       THEN <<Head(sorted)>> \o InsertRule_Dedup(Tail(sorted), x)
       ELSE <<x>> \o sorted

RECURSIVE InsertRule(_, _)
InsertRule(sorted, x) ==
  IF sorted = <<>> THEN <<x>>
  ELSE IF compareRules(Head(sorted), x) <= 0
       THEN <<Head(sorted)>> \o InsertRule(Tail(sorted), x)
       ELSE <<x>> \o sorted

RECURSIVE sortRules(_)
sortRules(rules) ==
  IF rules = <<>> THEN <<>>
  ELSE InsertRule(sortRules(SubSeq(rules, 1, Len(rules) - 1)), rules[Len(rules)])

\* lines 138-142: the rule of one decoded domain record
mapDomain(d) ==
  [type |-> domainTypeToRuleType(d.type),
   value |-> trim(d.value),
   attrs |-> sortAttrs(extractAttrs(d.attribute))]

\* lines 137-147
normalizeRules(domains) == sortRules([i \in 1 .. Len(domains) |-> mapDomain(domains[i])])

\* lines 132-149 for one entry: the categories pushed
categoriesOf(site) ==
  LET name == trim(site.country_code)
  IN IF name = <<>> THEN <<>>
     ELSE << [name |-> name, rules |-> normalizeRules(site.domain)] >>

\* Inputs: decoded domain records.
\* "undefined" is a record without a type field.
DecodedTypes == {"Domain", "Full", "Plain", "Regex", "Unknown", "undefined"}
DecodedValues == { <<"a">>, <<"A", " ">> }
DecodedAttributes ==
  LET cn == <<"c", "n">>
  IN { <<>>,
       << [hasKey |-> TRUE, key |-> cn, kind |-> "bool", bool_value |-> TRUE, int_value |-> <<>>] >>,
       << [hasKey |-> TRUE, key |-> cn, kind |-> "int", bool_value |-> FALSE, int_value |-> <<"1">>],
          [hasKey |-> TRUE, key |-> <<"a">>, kind |-> "bool", bool_value |-> FALSE, int_value |-> <<>>],
          [hasKey |-> FALSE, key |-> <<>>, kind |-> "none", bool_value |-> FALSE, int_value |-> <<>>],
          [hasKey |-> TRUE, key |-> <<"A">>, kind |-> "none", bool_value |-> FALSE, int_value |-> <<>>] >> }
DecodedDomains == [type : DecodedTypes, value : DecodedValues, attribute : DecodedAttributes]
CountryCodes == { <<"t", "e", "s", "t">>, <<" ">> }

InputOrders(n) == { f \in [1 .. n -> 1 .. n] : \A i, j \in 1 .. n : i # j => f[i] # f[j] }

NormIdle ==
  /\ nSite = [country_code |-> <<>>, domain |-> <<>>]
  /\ nSite2 = nSite
  /\ nOut = <<>>
  /\ nOut2 = <<>>
  /\ nDone = FALSE

NormInit ==
  /\ nSite \in [country_code : CountryCodes, domain : SeqsUpTo(DecodedDomains, MaxDomains)]
  /\ \E f \in InputOrders(Len(nSite.domain)) :
       nSite2 = [nSite EXCEPT !.domain = [i \in 1 .. Len(nSite.domain) |-> nSite.domain[f[i]]]]
  /\ nOut = <<>>
  /\ nOut2 = <<>>
  /\ nDone = FALSE

BuildCategories ==
  /\ ~nDone
  /\ nOut' = categoriesOf(nSite)
  /\ nOut2' = categoriesOf(nSite2)
  /\ nDone' = TRUE
  /\ UNCHANGED <<nSite, nSite2>>

PubIdle ==
  /\ localPlan = <<>>
  /\ DRY_RUN = FALSE
  /\ CONCURRENCY = 1
  /\ r2Manifest = NoManifest
  /\ r2Manifest0 = r2Manifest
  /\ r2Objects = [k \in Keys |-> "old"]
  /\ pc = "idle"
  /\ remoteEntries = EmptyEntries
  /\ changed = <<>>
  /\ idx = 0
  /\ wstate = <<"idle">>
  /\ witem = <<0>>
  /\ merged = EmptyEntries
  /\ puts = <<>>
  /\ okPuts = {}
  /\ gets = <<>>
  /\ exitCode = -1

(***************************************************************************)
(* Specifications, one per script                                          *)
(***************************************************************************)
notPub == <<filterVars, srsVars, geoVars, ipVars, normVars>>
notFilter == <<pubVars, srsVars, geoVars, ipVars, normVars>>
notSrs == <<pubVars, filterVars, geoVars, ipVars, normVars>>
notGeo == <<pubVars, filterVars, srsVars, ipVars, normVars>>
notIp == <<pubVars, filterVars, srsVars, geoVars, normVars>>
notNorm == <<pubVars, filterVars, srsVars, geoVars, ipVars>>

\* sync-r2.mjs (publisher)
Init == PubInit /\ FilterIdle /\ SrsIdle /\ GeoIdle /\ IpIdle /\ NormIdle
Next ==
  \/ MainStart /\ UNCHANGED notPub
  \/ FetchRemoteManifest /\ UNCHANGED notPub
  \/ UploadPlanStart /\ UNCHANGED notPub
  \/ (\E w \in Workers : PutOk(w)) /\ UNCHANGED notPub
  \/ (\E w \in Workers : PutFail(w)) /\ UNCHANGED notPub
  \/ (\E w \in Workers : OrphanPut(w)) /\ UNCHANGED notPub
  \/ WriteManifest /\ UNCHANGED notPub
  \/ ManifestPutOk /\ UNCHANGED notPub
  \/ ManifestPutFail /\ UNCHANGED notPub
Spec == Init /\ [][Next]_vars

\* build-srs.mjs: toHeadlessRule as a function
FilterSpecInit == FilterInit /\ PubIdle /\ SrsIdle /\ GeoIdle /\ IpIdle /\ NormIdle
FilterSpecNext == CallToHeadlessRule /\ UNCHANGED notFilter
SpecFilter == FilterSpecInit /\ [][FilterSpecNext]_vars

\* build-srs.mjs: main
SrsSpecInit == SrsInit /\ PubIdle /\ FilterIdle /\ GeoIdle /\ IpIdle /\ NormIdle
SrsSpecNext ==
  \/ SrsLoop /\ UNCHANGED notSrs
  \/ SrsCompileOk /\ UNCHANGED notSrs
  \/ SrsCompileFail /\ UNCHANGED notSrs
SpecSrs == SrsSpecInit /\ [][SrsSpecNext]_vars

\* geoip SRS build: main and runPool
GeoSpecInit == GeoInit /\ PubIdle /\ FilterIdle /\ SrsIdle /\ IpIdle /\ NormIdle
GeoSpecNext ==
  \/ GeoMainStart /\ UNCHANGED notGeo
  \/ (\E w \in GeoWorkers : GeoTaskOk(w)) /\ UNCHANGED notGeo
  \/ (\E w \in GeoWorkers : GeoTaskFail(w)) /\ UNCHANGED notGeo
SpecGeoip == GeoSpecInit /\ [][GeoSpecNext]_vars

\* geoip JSON build: toIPv6String as a function
IpSpecInit == IpInit /\ PubIdle /\ FilterIdle /\ SrsIdle /\ GeoIdle /\ NormIdle
IpSpecNext == CallToIPv6String /\ UNCHANGED notIp
SpecIPv6 == IpSpecInit /\ [][IpSpecNext]_vars

\* build-geosite-json.mjs: the normalisation of one entry
NormSpecInit == NormInit /\ PubIdle /\ FilterIdle /\ SrsIdle /\ GeoIdle /\ IpIdle
NormSpecNext == BuildCategories /\ UNCHANGED notNorm
SpecNormalize == NormSpecInit /\ [][NormSpecNext]_vars

\* sync-r2.mjs run twice in a row
TwiceNext ==
  \/ MainStart /\ UNCHANGED notPub
  \/ FetchRemoteManifest /\ UNCHANGED notPub
  \/ UploadPlanStart /\ UNCHANGED notPub
  \/ (\E w \in Workers : PutOk(w)) /\ UNCHANGED notPub
  \/ (\E w \in Workers : PutFail(w)) /\ UNCHANGED notPub
  \/ (\E w \in Workers : OrphanPut(w)) /\ UNCHANGED notPub
  \/ WriteManifest /\ UNCHANGED notPub
  \/ ManifestPutOk /\ UNCHANGED notPub
  \/ ManifestPutFail /\ UNCHANGED notPub
  \/ RunAgain /\ UNCHANGED notPub
SpecTwice == Init /\ [][TwiceNext]_vars

\* The variants of the two SRS builds: toHeadlessRule of build-srs.mjs as a
\* function, main of build-srs.mjs, or main of the geoip SRS build.
VariantsInit ==
  \/ FilterInit /\ PubIdle /\ SrsIdle /\ GeoIdle /\ IpIdle /\ NormIdle
  \/ SrsInit /\ PubIdle /\ FilterIdle /\ GeoIdle /\ IpIdle /\ NormIdle
  \/ GeoInit /\ PubIdle /\ FilterIdle /\ SrsIdle /\ IpIdle /\ NormIdle
VariantsNext ==
  \/ CallToHeadlessRule /\ UNCHANGED notFilter
  \/ SrsLoop /\ UNCHANGED notSrs
  \/ SrsCompileOk /\ UNCHANGED notSrs
  \/ SrsCompileFail /\ UNCHANGED notSrs
  \/ GeoMainStart /\ UNCHANGED notGeo
  \/ (\E w \in GeoWorkers : GeoTaskOk(w)) /\ UNCHANGED notGeo
  \/ (\E w \in GeoWorkers : GeoTaskFail(w)) /\ UNCHANGED notGeo
SpecVariants == VariantsInit /\ [][VariantsNext]_vars

\* The publisher, the geosite SRS build or the geoip SRS build is run: the
\* three programs that start external commands.
PoolsInit ==
  \/ PubInit /\ FilterIdle /\ SrsIdle /\ GeoIdle /\ IpIdle /\ NormIdle
  \/ SrsInit /\ PubIdle /\ FilterIdle /\ GeoIdle /\ IpIdle /\ NormIdle
  \/ GeoInit /\ PubIdle /\ FilterIdle /\ SrsIdle /\ IpIdle /\ NormIdle
PoolsNext ==
  \/ MainStart /\ UNCHANGED notPub
  \/ FetchRemoteManifest /\ UNCHANGED notPub
  \/ UploadPlanStart /\ UNCHANGED notPub
  \/ (\E w \in Workers : PutOk(w)) /\ UNCHANGED notPub
  \/ (\E w \in Workers : PutFail(w)) /\ UNCHANGED notPub
  \/ (\E w \in Workers : OrphanPut(w)) /\ UNCHANGED notPub
  \/ WriteManifest /\ UNCHANGED notPub
  \/ ManifestPutOk /\ UNCHANGED notPub
  \/ ManifestPutFail /\ UNCHANGED notPub
  \/ SrsLoop /\ UNCHANGED notSrs
  \/ SrsCompileOk /\ UNCHANGED notSrs
  \/ SrsCompileFail /\ UNCHANGED notSrs
  \/ GeoMainStart /\ UNCHANGED notGeo
  \/ (\E w \in GeoWorkers : GeoTaskOk(w)) /\ UNCHANGED notGeo
  \/ (\E w \in GeoWorkers : GeoTaskFail(w)) /\ UNCHANGED notGeo
SpecPools == PoolsInit /\ [][PoolsNext]_vars

\* The two worker pools under the scheduling the runtime gives them: the
\* publisher's uploadPlan or the geoip SRS build's main is run; a step of
\* the script itself is taken when it can be, and every started PUT and
\* every started compiler run settles, one way or the other.
\* The inputs are those that decide how many tasks there are: a manifest
\* that is absent or has entries for the two artifact keys only, and groups
\* with no CIDR or with IPv4 CIDRs only.
TerminationManifest(m) ==
  m.present => m.json /\ m.entries[K_INDEX] = NoEntry /\ m.entries[K_OLD] = NoEntry
TerminationGroup(g) == g.data.cidr6 = <<>>
TerminationInit ==
  \/ /\ PubInit /\ FilterIdle /\ SrsIdle /\ GeoIdle /\ IpIdle /\ NormIdle
     /\ TerminationManifest(r2Manifest)
  \/ /\ GeoInit /\ PubIdle /\ FilterIdle /\ SrsIdle /\ IpIdle /\ NormIdle
     /\ \A i \in 1 .. Len(gGroups) : TerminationGroup(gGroups[i])
TerminationNext ==
  \/ MainStart /\ UNCHANGED notPub
  \/ FetchRemoteManifest /\ UNCHANGED notPub
  \/ UploadPlanStart /\ UNCHANGED notPub
  \/ (\E w \in Workers : PutOk(w)) /\ UNCHANGED notPub
  \/ (\E w \in Workers : PutFail(w)) /\ UNCHANGED notPub
  \/ (\E w \in Workers : OrphanPut(w)) /\ UNCHANGED notPub
  \/ WriteManifest /\ UNCHANGED notPub
  \/ ManifestPutOk /\ UNCHANGED notPub
  \/ ManifestPutFail /\ UNCHANGED notPub
  \/ GeoMainStart /\ UNCHANGED notGeo
  \/ (\E w \in GeoWorkers : GeoTaskOk(w)) /\ UNCHANGED notGeo
  \/ (\E w \in GeoWorkers : GeoTaskFail(w)) /\ UNCHANGED notGeo
PutSettles(w) == w \in Workers /\ (PutOk(w) \/ PutFail(w)) /\ UNCHANGED notPub
CompileSettles(w) == w \in GeoWorkers /\ (GeoTaskOk(w) \/ GeoTaskFail(w)) /\ UNCHANGED notGeo
TerminationFairness ==
  /\ WF_vars(UploadPlanStart /\ UNCHANGED notPub)
  /\ WF_vars(GeoMainStart /\ UNCHANGED notGeo)
  /\ \A w \in 1 .. MaxWorkers : WF_vars(PutSettles(w))
  /\ \A w \in 1 .. MaxSrsWorkers : WF_vars(CompileSettles(w))
SpecTermination == TerminationInit /\ [][TerminationNext]_vars /\ TerminationFairness

(***************************************************************************)
(* Publisher claims                                                        *)
(***************************************************************************)
DiffDone == pc \in {"workers", "merge", "manifestPut"} \/ (pc = "done" /\ gets # <<>>)
InChanged(item) == \E j \in 1 .. Len(changed) : changed[j] = item
ManifestPutStarted == \E j \in 1 .. Len(puts) : puts[j].n = 0
R2Objects0 == [k \in Keys |-> "old"]

\* C1: once uploadPlan has computed the changed list, a local item is in it
\* if and only if the manifest has no entry for its key, or the entry's
\* sha256 differs from the item's, or the entry's size differs from the
\* item's; an item matching its entry in key, hash and size is never in it.
C1_ChangedIff ==
  DiffDone =>
    \A i \in 1 .. Len(localPlan) :
      LET item == localPlan[i]
          e == remoteEntries[item.key]
      IN /\ InChanged(item) <=>
              (e = NoEntry \/ e.sha256 # item.sha256 \/ e.size # item.size)
         /\ (e.sha256 = item.sha256 /\ e.size = item.size) => ~InChanged(item)

\* C1 witness: a diff that kept one matching item out of the changed list and
\* put in another whose entry has the same hash but another size.
C1_Witness ==
  /\ DiffDone
  /\ \E i, j \in 1 .. Len(localPlan) :
       /\ ~InChanged(localPlan[i])
       /\ remoteEntries[localPlan[i].key].sha256 = localPlan[i].sha256
       /\ InChanged(localPlan[j])
       /\ remoteEntries[localPlan[j].key].sha256 = localPlan[j].sha256
       /\ remoteEntries[localPlan[j].key].size # localPlan[j].size

\* C2: the PUT of the manifest is started only when the PUT of every changed
\* item has resolved; and once the PUT of a changed item has failed, no PUT
\* of the manifest has been or is started and the manifest in the bucket is
\* the one the run found.
C2_ManifestAfterUploads ==
  /\ ManifestPutStarted => \A n \in 1 .. Len(changed) : n \in okPuts
  /\ (\E w \in Workers : wstate[w] = "failed") =>
       /\ ~ManifestPutStarted
       /\ r2Manifest = r2Manifest0

\* C2 witness: two workers, one PUT resolved, then another failed and the run
\* was aborted.
C2_Witness ==
  /\ pc = "done"
  /\ exitCode = 1
  /\ okPuts # {}
  /\ \E w \in Workers : wstate[w] = "failed"
  /\ \E w \in Workers : wstate[w] = "put"

\* C3: after a publish run that ended successfully and was not a dry run,
\* the manifest in the bucket holds, for every file of the local inventory,
\* an entry under the file's key with the file's sha256 and size.
C3_ManifestMatchesLocal ==
  (pc = "done" /\ exitCode = 0 /\ ~DRY_RUN) =>
    \A i \in 1 .. Len(localPlan) :
      /\ r2Manifest.present
      /\ r2Manifest.entries[localPlan[i].key] =
           [sha256 |-> localPlan[i].sha256, size |-> localPlan[i].size]

\* C10: in dry-run mode no PUT is ever started, the bucket's objects and
\* manifest stay as the run found them, and the changed list is the one the
\* diff of a normal run gives.
C10_DryRunNoWrites ==
  DRY_RUN =>
    /\ puts = <<>>
    /\ okPuts = {}
    /\ r2Objects = R2Objects0
    /\ r2Manifest = r2Manifest0
    /\ DiffDone =>
         \A i \in 1 .. Len(localPlan) :
           InChanged(localPlan[i]) <=>
             LET e == remoteEntries[localPlan[i].key]
             IN ~(e.sha256 = localPlan[i].sha256 /\ e.size = localPlan[i].size)

\* C10 witness: a dry run that ended with two or more changed items.
C10_Witness ==
  /\ DRY_RUN
  /\ pc = "done"
  /\ exitCode = 0
  /\ Len(changed) >= 2
  /\ Len(changed) < Len(localPlan)

\* C11: when the diff finds no changed item the run has ended with status
\* 0, no PUT of an object or of the manifest has been started, and the
\* bucket's objects and manifest are as the run found them.
C11_EmptyChangedNoWrites ==
  (DiffDone /\ changed = <<>>) =>
    /\ pc = "done"
    /\ exitCode = 0
    /\ puts = <<>>
    /\ r2Objects = R2Objects0
    /\ r2Manifest = r2Manifest0

\* C11 witness: a run that was not a dry run read a manifest matching both
\* of its local items and ended.
C11_Witness ==
  /\ DiffDone
  /\ changed = <<>>
  /\ ~DRY_RUN
  /\ gets = <<"ok">>
  /\ Len(localPlan) >= 2
  /\ pc = "done"

LocalKeys == { localPlan[i].key : i \in 1 .. Len(localPlan) }
ManifestWritten == pc = "done" /\ exitCode = 0 /\ ManifestPutStarted

\* C12: the manifest a successful run has written holds, under the key of
\* every local item, that item's sha256 and size, and under every other key
\* what the manifest the run read held there (an entry, or none).
C12_MergedManifest ==
  ManifestWritten =>
    /\ \A i \in 1 .. Len(localPlan) :
         r2Manifest.entries[localPlan[i].key] =
           [sha256 |-> localPlan[i].sha256, size |-> localPlan[i].size]
    /\ \A k \in Keys \ LocalKeys : r2Manifest.entries[k] = remoteEntries[k]

\* C15: no two items of the local plan have the same key, and no two PUTs
\* of one run are of the same key.
C15_KeysInjective ==
  /\ DiffDone =>
       \A i, j \in 1 .. Len(localPlan) : i # j => localPlan[i].key # localPlan[j].key
  /\ \A i, j \in 1 .. Len(puts) : i # j => puts[i].key # puts[j].key

\* C17: when the GET of the manifest did not give a parsed manifest (object
\* not found, wrangler failed, body not JSON), the run goes on with no
\* entries, every local item is in the changed list, and the run ends with
\* status 1 only if a PUT failed.
C17_FailedGetIsEmptyManifest ==
  (gets # <<>> /\ gets[1] # "ok") =>
    /\ remoteEntries = EmptyEntries
    /\ DiffDone => changed = localPlan
    /\ exitCode = 1 => ((\E w \in Workers : wstate[w] = "failed") \/ ManifestPutStarted)

\* C17 witness: the bucket held a manifest whose entry matched a local item,
\* the GET failed, and the item is in the changed list.
C17_Witness ==
  /\ gets = <<"error">>
  /\ r2Manifest0.json
  /\ DiffDone
  /\ \E i \in 1 .. Len(localPlan) :
       /\ r2Manifest0.entries[localPlan[i].key] =
            [sha256 |-> localPlan[i].sha256, size |-> localPlan[i].size]
       /\ InChanged(localPlan[i])

PutFailed == \E w \in Workers : wstate[w] = "failed"

\* C19: once the PUT of a changed item has failed the run has ended with
\* status 1, and from then on no PUT is started.
C19_FailFast ==
  /\ [](PutFailed => (pc = "done" /\ exitCode = 1))
  /\ [][PutFailed => puts' = puts]_vars

\* C19 witness: a PUT failed while changed items were still waiting for a
\* worker, and the PUT another worker had in flight finished on its own.
C19_Witness ==
  /\ PutFailed
  /\ idx < Len(changed)
  /\ Len(puts) = idx
  /\ \E w \in Workers : wstate[w] = "orphan"

ObjectPuts == { j \in 1 .. Len(puts) : puts[j].n # 0 }

\* C20: after a successful run that was not a dry run and had changed items,
\* every changed item has had exactly one PUT, under its own key, every PUT
\* of an object is of a changed item, the keys PUT are the keys of the
\* changed list, and an item matching the manifest in key, hash and size is
\* not in the changed list.
C20_PutsAreChangedSet ==
  (pc = "done" /\ exitCode = 0 /\ ~DRY_RUN /\ changed # <<>>) =>
    /\ \A n \in 1 .. Len(changed) :
         Cardinality({ j \in ObjectPuts : puts[j].n = n }) = 1
    /\ \A j \in ObjectPuts :
         puts[j].n \in 1 .. Len(changed) /\ puts[j].key = changed[puts[j].n].key
    /\ { puts[j].key : j \in ObjectPuts } = { changed[n].key : n \in 1 .. Len(changed) }
    /\ okPuts = 1 .. Len(changed)
    /\ \A i \in 1 .. Len(localPlan) :
         remoteEntries[localPlan[i].key] =
           [sha256 |-> localPlan[i].sha256, size |-> localPlan[i].size]
         => ~InChanged(localPlan[i])

\* C20 witness: two workers uploaded two changed items of a plan that has a
\* third, unchanged one.
C20_Witness ==
  /\ pc = "done"
  /\ exitCode = 0
  /\ ~DRY_RUN
  /\ CONCURRENCY = 2
  /\ Len(changed) = 2
  /\ Len(localPlan) = 3
  /\ gets = <<"ok">>

ManifestPutAt == { j \in 1 .. Len(puts) : puts[j].n = 0 }
OrderOfRemoteCalls ==
  /\ puts # <<>> => gets # <<>>
  /\ Cardinality(ManifestPutAt) <= 1
  /\ \A j \in ManifestPutAt : j = Len(puts)

\* C23 as stated: every run that has ended has read the manifest exactly
\* once; no PUT is started before the GET; the manifest is PUT at most once
\* and its PUT is the last PUT started.
C23_ReadExactlyOnce ==
  /\ pc = "done" => Len(gets) = 1
  /\ OrderOfRemoteCalls

\* C23 amended: the manifest is read at most once, and a run that has ended
\* has read it exactly once if it found a local artifact and not at all if
\* it found none; no PUT is started before the GET; the manifest is PUT at
\* most once and its PUT is the last PUT started.
C23_ReadOnceUnlessNothingToSync ==
  /\ Len(gets) <= 1
  /\ pc = "done" => (Len(gets) = 1 <=> Len(localPlan) > 0)
  /\ pc \in {"uploadPlan", "workers", "merge", "manifestPut"} => Len(gets) = 1
  /\ OrderOfRemoteCalls

\* C23 witness: a run read the manifest, uploaded two objects and then
\* wrote the manifest.
C23_Witness ==
  /\ pc = "done"
  /\ exitCode = 0
  /\ Len(gets) = 1
  /\ Len(puts) = 3
  /\ puts[3].n = 0
  /\ r2Manifest.entries = merged

\* the second run has compared the plan with the manifest it read
SecondDiffDone == Len(gets) = 2 /\ pc \in {"workers", "merge", "manifestPut", "done"}

\* C24: a second run, over the same local files and reading the manifest a
\* successful first run left in the bucket, finds no changed item, starts no
\* PUT and ends with status 0.
C24_SecondRunIdle ==
  (SecondDiffDone /\ gets[2] = "ok") =>
    /\ changed = <<>>
    /\ puts = <<>>
    /\ pc = "done"
    /\ exitCode = 0

(***************************************************************************)
(* Concurrency bound claims                                                *)
(***************************************************************************)
\* PUTs of objects started and neither resolved nor rejected
SettledPuts ==
  okPuts \cup { witem[w] : w \in { v \in Workers : wstate[v] \in {"failed", "orphan"} } }
InFlightPuts == Cardinality({ j \in ObjectPuts : puts[j].n \notin SettledPuts })
\* compiler runs started and not settled
InFlightGeoCompiles ==
  Cardinality({ k \in 1 .. Len(gStarted) : gResults[gStarted[k] + 1] = "unset" })
InFlightSrsCompiles == Cardinality(sAttempted \ (sCompiled \cup sFailed))

\* C16: the PUTs in flight are never more than CONCURRENCY, the compiler
\* runs of the geoip build in flight never more than its concurrency, and
\* the geosite build never has more than one compiler run in flight.
C16_BoundedInFlight ==
  /\ InFlightPuts <= CONCURRENCY
  /\ InFlightGeoCompiles <= gConc
  /\ InFlightSrsCompiles <= 1

\* C16 witness: one worker, one PUT in flight and changed items waiting.
C16_Witness ==
  /\ CONCURRENCY = 1
  /\ InFlightPuts = 1
  /\ Len(changed) >= 3
  /\ idx < Len(changed)

(***************************************************************************)
(* toHeadlessRule (domain side) claims                                     *)
(***************************************************************************)
EqualsIgnoringCase(a, b) ==
  Len(a) = Len(b) /\ \A i \in 1 .. Len(a) : toLowerChar(a[i]) = toLowerChar(b[i])
HasAttr(r, k) == \E i \in 1 .. Len(r.attrs) : EqualsIgnoringCase(r.attrs[i], k)

\* What the claim says of rule r under `filter`: no filter passes every rule,
\* a filter k passes the rules that have attribute k, a filter !k those that
\* do not have it.
ClaimPasses(r, filter) ==
  IF filter = Null THEN TRUE
  ELSE IF Head(filter) = "!" THEN ~HasAttr(r, Tail(filter))
  ELSE HasAttr(r, filter)

BucketValues(out, b) == IF b \in DOMAIN out THEN out[b] ELSE <<>>
ValuesOf(rules) == [i \in 1 .. Len(rules) |-> rules[i].value]

\* C6: the values toHeadlessRule returns in the bucket of a type are the
\* values of the rules of that type that pass the filter as the claim
\* describes it (no filter: all; k: attrs contain k; !k: attrs do not contain
\* k; case-insensitive), in input order.
C6_FilterSemantics ==
  fDone =>
    \A t \in RuleTypes :
      BucketValues(fOut, BucketOf(t)) =
        ValuesOf(SelectSeq(fRules, LAMBDA r : r.type = t /\ ClaimPasses(r, fFilter)))

\* C6 witness: rules [{attrs:[cn]}, {attrs:[]}] under the filter !cn gave
\* only the second rule's value.
C6_Witness ==
  /\ fDone
  /\ fFilter = <<"!", "c", "n">>
  /\ Len(fRules) = 2
  /\ fRules[1].attrs = << <<"c", "n">> >> /\ fRules[1].type = "domain" /\ fRules[1].value = "a.com"
  /\ fRules[2].attrs = <<>> /\ fRules[2].type = "domain" /\ fRules[2].value = "b.com"
  /\ fOut = [b \in {"domain_suffix"} |-> <<"b.com">>]

(***************************************************************************)
(* Variant claims                                                          *)
(***************************************************************************)
\* The bucket the claims give each rule type.
ClaimBucket(t) ==
  CASE t = "full" -> "domain"
    [] t = "domain" -> "domain_suffix"
    [] t = "keyword" -> "domain_keyword"
    [] t = "regexp" -> "domain_regex"

RECURSIVE SumLens(_, _)
SumLens(out, bs) ==
  IF bs = {} THEN 0
  ELSE LET b == CHOOSE x \in bs : TRUE
       IN Len(BucketValues(out, b)) + SumLens(out, bs \ {b})

TasksBuilt == gPc \in {"pool", "done"} /\ Len(gGroups) > 0
TasksFor(name, filter) ==
  { k \in 1 .. Len(gTasks) : gTasks[k].name = name /\ gTasks[k].filter = filter }

\* C13: with no filter, the four buckets toHeadlessRule returns hold every
\* rule value once, the bucket of a type holding the values of the rules of
\* that type in input order; and the geoip build's unfiltered task of a
\* group holds cidr4 followed by cidr6.
C13_UnfilteredLosesNothing ==
  /\ (fDone /\ fFilter = Null) =>
       /\ \A t \in RuleTypes :
            BucketValues(fOut, ClaimBucket(t)) =
              ValuesOf(SelectSeq(fRules, LAMBDA r : r.type = t))
       /\ SumLens(fOut, Buckets) = Len(fRules)
       /\ DOMAIN fOut \subseteq Buckets
  /\ TasksBuilt =>
       \A i \in 1 .. Len(gGroups) :
         LET all == gGroups[i].data.cidr4 \o gGroups[i].data.cidr6
             ts == TasksFor(gGroups[i].name, Null)
         IN IF all = <<>> THEN ts = {}
            ELSE /\ Cardinality(ts) = 1
                 /\ \A k \in ts : gTasks[k].ip_cidr = all

\* C13 witness: two rules of different types, one of them with an
\* attribute, went through the unfiltered variant.
C13_Witness ==
  /\ fDone
  /\ fFilter = Null
  /\ Len(fRules) = 2
  /\ fRules[1].type = "keyword" /\ fRules[1].attrs = << <<"c", "n">> >>
  /\ fRules[2].type = "full" /\ fRules[2].attrs = <<>>
  /\ DOMAIN fOut = {"domain_keyword", "domain"}

\* Whether some rule of the list passes the filter, as the claims describe
\* the filters.
SomeRulePasses(rules, filter) ==
  \E i \in 1 .. Len(rules) : rules[i].type \in RuleTypes /\ ClaimPasses(rules[i], filter)
SomeCidrPasses(data, filter) ==
  CASE filter = Null -> data.cidr4 \o data.cidr6 # <<>>
    [] filter = <<"v", "4">> -> data.cidr4 # <<>>
    [] filter = <<"v", "6">> -> data.cidr6 # <<>>
SrsReached(p) == p < sPos \/ (p = sPos /\ sPc = "compile")

\* C14: a variant no rule passes is never handed to the compiler, has no
\* source or .srs file and is no failure, and the variants after it are
\* still compiled when no compiler run fails; a variant some rule passes is
\* compiled from a rule holding the non-empty buckets and only those. The
\* same for the geoip build: tasks exist for the variants a CIDR passes and
\* for no other, each with a non-empty ip_cidr, and all of them are run.
C14_EmptyVariantSkipped ==
  /\ \A p \in SrsPositions :
       /\ ~SomeRulePasses(SrsCat(p).rules, SrsFilter(p)) =>
            p \notin (sAttempted \cup sCompiled \cup sFailed)
       /\ (SomeRulePasses(SrsCat(p).rules, SrsFilter(p)) /\ SrsReached(p)) =>
            p \in sAttempted
       /\ p \in sAttempted =>
            /\ \A b \in DOMAIN SrsRule(p) : Len(SrsRule(p)[b]) > 0
            /\ DOMAIN SrsRule(p) =
                 { ClaimBucket(SrsCat(p).rules[i].type) :
                     i \in { j \in 1 .. Len(SrsCat(p).rules) :
                               ClaimPasses(SrsCat(p).rules[j], SrsFilter(p)) } }
  /\ sExit = 1 => sFailed # {}
  /\ (sPc = "done" /\ sExit = 0) =>
       /\ \A p \in SrsPositions :
            SomeRulePasses(SrsCat(p).rules, SrsFilter(p)) => p \in sCompiled
       /\ sReported = Cardinality(sCompiled)
  /\ fDone =>
       /\ \A b \in DOMAIN fOut : Len(fOut[b]) > 0
       /\ DOMAIN fOut = { ClaimBucket(fRules[i].type) :
                            i \in { j \in 1 .. Len(fRules) : ClaimPasses(fRules[j], fFilter) } }
  /\ TasksBuilt =>
       /\ \A i \in 1 .. Len(gGroups) : \A f \in {Null, <<"v", "4">>, <<"v", "6">>} :
            Cardinality(TasksFor(gGroups[i].name, f)) =
              (IF SomeCidrPasses(gGroups[i].data, f) THEN 1 ELSE 0)
       /\ \A k \in 1 .. Len(gTasks) : gTasks[k].ip_cidr # <<>>
       /\ \A k \in 1 .. Len(gStarted) : gStarted[k] + 1 \in 1 .. Len(gTasks)
       /\ gExit # 1
       /\ gPc = "done" => \A k \in 1 .. Len(gTasks) : gResults[k] # "unset"

\* C14 witness: a category whose only rule has no attribute: the cn variant
\* was skipped, the !cn variant after it was compiled, and the run ended
\* with status 0 having generated two files.
C14_Witness ==
  /\ sPc = "done"
  /\ sExit = 0
  /\ Len(sCats) = 1
  /\ sCats[1].rules # <<>>
  /\ sCompiled = {1, 3}
  /\ sAttempted = {1, 3}
  /\ sReported = 2

(***************************************************************************)
(* Compilation phase claims                                                *)
(***************************************************************************)
\* C4: when the geosite SRS build has ended, every name/filter variant with
\* a non-empty rule has had its compiler run started, whether or not the
\* compiler failed for another variant.
C4_SiblingTasksAttempted ==
  sPc = "done" => \A p \in SrsPositions : ~SrsSkipped(p) => p \in sAttempted

\* C5: when the geoip SRS build has ended, its exit status is non-zero if and
\* only if a compile task failed, and a run with a failed task does not end
\* with status zero reporting every task as generated.
C5_ExitStatusReflectsFailures ==
  gPc = "done" =>
    LET anyFailed == \E k \in 1 .. Len(gResults) : gResults[k] = "err"
    IN /\ (gExit # 0) <=> anyFailed
       /\ anyFailed => ~(gExit = 0 /\ gReported = Len(gTasks))

\* task k (0-based) is in flight at some worker
InFlightAt(k) == \E w \in GeoWorkers : gWst[w] = "run" /\ gWidx[w] = k

\* C22: in runPool no task index is started twice, every index started is
\* an index of the task list, a started task is in flight at exactly the
\* workers' own idx until its result is stored, a result is stored only at
\* the index of the task that was in flight and is never overwritten, and
\* when the pool has settled every task has been started once and every
\* result slot is filled.
C22_EachTaskOnce ==
  /\ [](/\ \A a, b \in 1 .. Len(gStarted) : a # b => gStarted[a] # gStarted[b]
        /\ \A a \in 1 .. Len(gStarted) :
             /\ gStarted[a] \in 0 .. Len(gTasks) - 1
             /\ (gResults[gStarted[a] + 1] = "unset") <=> InFlightAt(gStarted[a])
        /\ \A k \in 1 .. Len(gResults) :
             gResults[k] # "unset" => \E a \in 1 .. Len(gStarted) : gStarted[a] = k - 1
        /\ \A v, w \in GeoWorkers :
             (v # w /\ gWst[v] = "run" /\ gWst[w] = "run") => gWidx[v] # gWidx[w]
        /\ (gPc = "done" /\ Len(gGroups) > 0) =>
             /\ Len(gStarted) = Len(gTasks)
             /\ Len(gResults) = Len(gTasks)
             /\ \A k \in 1 .. Len(gResults) : gResults[k] # "unset")
  /\ [][gPc = "pool" =>
         \A k \in 1 .. Len(gResults) :
           gResults'[k] # gResults[k] => (gResults[k] = "unset" /\ InFlightAt(k - 1))]_vars

\* C22 witness: two workers and three or more tasks; the second task
\* settled first, with an error, while the first was still running, and its
\* worker took the third.
C22_Witness ==
  /\ gPc = "pool"
  /\ gConc = 2
  /\ Len(gTasks) >= 3
  /\ gResults[1] = "unset"
  /\ gResults[2] = "err"
  /\ gStarted = <<0, 1, 2>>

(***************************************************************************)
(* toIPv6String claims                                                     *)
(***************************************************************************)
IpWords == wordsOf(ipBytes)
\* words s .. s+l-1 (0-based) are a run of zero words
IsZeroRun(s, l) == l >= 1 /\ s >= 0 /\ s + l <= NWords /\ \A i \in s .. s + l - 1 : IpWords[i + 1] = 0
RunLens == { l \in 1 .. NWords : \E s \in 0 .. NWords - 1 : IsZeroRun(s, l) }
LongestRunLen == IF RunLens = {} THEN 0 ELSE CHOOSE l \in RunLens : \A m \in RunLens : m <= l
FirstRunStart(l) ==
  CHOOSE s \in 0 .. NWords - 1 : IsZeroRun(s, l) /\ \A t \in 0 .. s - 1 : ~IsZeroRun(t, l)
HexWords(from, to) == joinColon([k \in 1 .. (to - from + 1) |-> toString16(IpWords[from + k])])
IsPrefix(p, str) == Len(p) <= Len(str) /\ SubSeq(str, 1, Len(p)) = p
IsSuffix(p, str) == Len(p) <= Len(str) /\ SubSeq(str, Len(str) - Len(p) + 1, Len(str)) = p

\* C8: when a zero run is compressed, the text is the words before the run,
\* then exactly "::", then the words after the run; so sixteen zero bytes
\* give "::" and a run that reaches the last word leaves the text ending in
\* "::".
C8_MarkerIsDoubleColon ==
  (ipDone /\ LongestRunLen >= MinCompressRun) =>
    LET l == LongestRunLen
        s == FirstRunStart(l)
    IN ipOut = HexWords(0, s - 1) \o <<":", ":">> \o HexWords(s + l, NWords - 1)

\* C9: the run toIPv6String compresses is the longest run of zero words when
\* that has at least two words, the one with the lowest start among runs of
\* that length, and the text keeps the words before and after it; when the
\* longest run has fewer than two words nothing is compressed and the text
\* is all eight words joined by ":".
C9_LongestRunFirstWins ==
  ipDone =>
    IF LongestRunLen >= 2
    THEN /\ ipBest = <<FirstRunStart(LongestRunLen), LongestRunLen>>
         /\ IsPrefix(HexWords(0, ipBest[1] - 1) \o <<":", ":">>, ipOut)
         /\ IsSuffix(<<":", ":">> \o HexWords(ipBest[1] + ipBest[2], NWords - 1), ipOut)
    ELSE /\ ipBest[1] = -1
         /\ ipOut = HexWords(0, NWords - 1)
         /\ ipBytes = SampleAddress =>
              ipOut = <<"1", ":", "0", ":", "2", ":", "3", ":", "4", ":", "5", ":", "6", ":", "7">>

\* C9 witness: two zero runs of the same, longest, length (words 1-2 and
\* 5-6), of which the first was compressed.
C9_Witness ==
  /\ ipDone
  /\ IpWords = <<1, 0, 0, 43981, 1, 0, 0, 1>>
  /\ ipBest = <<1, 2>>
  /\ ipOut = <<"1", ":", ":", "a", "b", "c", "d", ":", "1", ":", "0", ":", "0", ":", "1">>

(***************************************************************************)
(* Normalisation claims                                                    *)
(***************************************************************************)
\* The rule type the claims give each decoded type.
ClaimRuleType(t) ==
  CASE t = "Domain" -> "domain"
    [] t = "Full" -> "full"
    [] t = "Plain" -> "keyword"
    [] t = "Regex" -> "regexp"
    [] OTHER -> "domain"

\* C18: the rules written for a category are as many as its decoded domain
\* records, every rule type is one of domain, full, keyword, regexp, and for
\* each of the four the rules of that type are as many as the records whose
\* type maps to it (Domain, Full, Plain, Regex to domain, full, keyword,
\* regexp; any other type, or none, to domain).
C18_TypeNormalized ==
  (nDone /\ nOut # <<>>) =>
    LET rules == nOut[1].rules
    IN /\ Len(rules) = Len(nSite.domain)
       /\ \A i \in 1 .. Len(rules) : rules[i].type \in {"domain", "full", "keyword", "regexp"}
       /\ \A t \in {"domain", "full", "keyword", "regexp"} :
            Cardinality({ i \in 1 .. Len(rules) : rules[i].type = t }) =
              Cardinality({ i \in 1 .. Len(nSite.domain) :
                              ClaimRuleType(nSite.domain[i].type) = t })

\* C18 witness: a Plain record and a record without a type gave a keyword
\* rule and a domain rule.
C18_Witness ==
  /\ nDone
  /\ nOut # <<>>
  /\ Len(nSite.domain) = 2
  /\ nSite.domain[1].type = "Plain"
  /\ nSite.domain[2].type = "undefined"
  /\ { nOut[1].rules[i].type : i \in 1 .. 2 } = {"keyword", "domain"}

CountIn(seq, x) == Cardinality({ i \in 1 .. Len(seq) : seq[i] = x })
MappedRecords == [i \in 1 .. Len(nSite.domain) |-> mapDomain(nSite.domain[i])]

\* C21: a category whose trimmed name is not empty is written, with as many
\* rules as it has decoded domain records, and every mapped record occurs
\* among the rules as often as among the mapped records (so the rules are
\* a permutation of them and equal records are all kept).
C21_NoMergeNoDrop ==
  (nDone /\ trim(nSite.country_code) # <<>>) =>
    /\ Len(nOut) = 1
    /\ Len(nOut[1].rules) = Len(nSite.domain)
    /\ \A i \in 1 .. Len(MappedRecords) :
         CountIn(nOut[1].rules, MappedRecords[i]) = CountIn(MappedRecords, MappedRecords[i])
    /\ \A i \in 1 .. Len(nOut[1].rules) :
         CountIn(MappedRecords, nOut[1].rules[i]) > 0

\* C21 witness: two equal decoded records gave two equal rules.
C21_Witness ==
  /\ nDone
  /\ Len(nSite.domain) = 2
  /\ nSite.domain[1] = nSite.domain[2]
  /\ Len(nOut) = 1
  /\ Len(nOut[1].rules) = 2
  /\ nOut[1].rules[1] = nOut[1].rules[2]

\* C7: the rules written for a category are the same, element by element
\* and attrs included, for any two input orders of the same decoded domain
\* records.
C7_OrderIndependent == nDone => nOut = nOut2

(***************************************************************************)
(* Partition claims                                                        *)
(***************************************************************************)
\* The variants of one rule list for one key: unfiltered, "k" and "!k".
VariantAll == toHeadlessRule(fRules, Null)
VariantNot == toHeadlessRule(fRules, <<"!">> \o fFilter)
InSeq(seq, x) == \E i \in 1 .. Len(seq) : seq[i] = x

\* the ip_cidr list of a group's variant, empty when no task was pushed
VariantList(name, filter) ==
  IF TasksFor(name, filter) = {} THEN <<>>
  ELSE gTasks[CHOOSE k \in TasksFor(name, filter) : TRUE].ip_cidr

IpSidePartition ==
  TasksBuilt =>
    \A i \in 1 .. Len(gGroups) :
      VariantList(gGroups[i].name, <<"v", "4">>) \o VariantList(gGroups[i].name, <<"v", "6">>)
        = VariantList(gGroups[i].name, Null)

\* C25 as stated: for every rule list and every key k, each value of a
\* bucket of the unfiltered output is in that bucket of exactly one of the
\* "k" and "!k" outputs, neither output has a value the unfiltered output
\* lacks in the bucket, and for every group the v4 list followed by the v6
\* list is the unfiltered list.
C25_VariantsPartition ==
  /\ (fDone /\ fFilter # Null) =>
       \A b \in Buckets :
         /\ \A i \in 1 .. Len(BucketValues(VariantAll, b)) :
              InSeq(BucketValues(fOut, b), BucketValues(VariantAll, b)[i])
                # InSeq(BucketValues(VariantNot, b), BucketValues(VariantAll, b)[i])
         /\ \A i \in 1 .. Len(BucketValues(fOut, b)) :
              InSeq(BucketValues(VariantAll, b), BucketValues(fOut, b)[i])
         /\ \A i \in 1 .. Len(BucketValues(VariantNot, b)) :
              InSeq(BucketValues(VariantAll, b), BucketValues(VariantNot, b)[i])
  /\ IpSidePartition

\* C25 amended: for every rule list and every key k that is not empty and
\* does not begin with "!", each bucket of the unfiltered output holds
\* every value exactly as often as that bucket of the "k" output and of the
\* "!k" output together (every rule goes to one of the two, none to both,
\* and neither has a value the unfiltered output lacks), and for every
\* group the v4 list followed by the v6 list is the unfiltered list.
C25_RulesPartition ==
  /\ (fDone /\ fFilter # Null /\ Head(fFilter) # "!") =>
       \A b \in Buckets : \A v \in RuleValues :
         CountIn(BucketValues(VariantAll, b), v) =
           CountIn(BucketValues(fOut, b), v) + CountIn(BucketValues(VariantNot, b), v)
  /\ IpSidePartition

\* C25 witness: two suffix rules, a.com with the attribute and b.com
\* without it, under key "CN": the "CN" output holds a.com, the "!CN"
\* output holds b.com, the unfiltered output holds both.
C25_Witness ==
  /\ fDone
  /\ fFilter = <<"C", "N">>
  /\ Len(fRules) = 2
  /\ fRules[1].type = "domain" /\ fRules[1].value = "a.com" /\ fRules[1].attrs = << <<"c", "n">> >>
  /\ fRules[2].type = "domain" /\ fRules[2].value = "b.com" /\ fRules[2].attrs = <<>>
  /\ fOut = [b \in {"domain_suffix"} |-> <<"a.com">>]
  /\ VariantNot = [b \in {"domain_suffix"} |-> <<"b.com">>]
  /\ VariantAll = [b \in {"domain_suffix"} |-> <<"a.com", "b.com">>]

(***************************************************************************)
(* Termination claims                                                      *)
(***************************************************************************)
UploadPhaseOver == pc \in {"merge", "manifestPut", "done"}
CompilePhaseOver == gPc = "done"

\* C26: when every started PUT and every started compiler run settles, a
\* call of uploadPlan is followed by the end of its upload phase
\* (Promise.all of the workers settled, or the early return), and a run of
\* the geoip SRS build's main by the end of runPool and of main, for every
\* number of tasks, zero included, and every worker count from 1 up, also
\* above the number of tasks.
C26_PoolsTerminate ==
  /\ (pc = "uploadPlan") ~> UploadPhaseOver
  /\ (gPc = "main") ~> CompilePhaseOver

\* C26 witness: two workers and one changed item: the second worker left at
\* once, the first one's PUT resolved, and the upload phase is over.
C26_Witness ==
  /\ pc = "merge"
  /\ CONCURRENCY = 2
  /\ Len(changed) = 1
  /\ wstate = <<"done", "done">>
  /\ okPuts = {1}

====
